---- MODULE Spec2Model ----
(***************************************************************************)
(* Android readouts of libmacchina (src/android/mod.rs): battery status,   *)
(* kernel identification, processor model name, machine description,       *)
(* memory statistics and package counts.                                   *)
(*                                                                         *)
(* Text is a sequence of one-character strings, so that String::len (a     *)
(* byte count), replace, trim, split_whitespace and to_lowercase act on    *)
(* characters as the Rust code does.  Every readout has its own            *)
(* specification (SpecBattery, SpecKernel, ...): the readouts share no     *)
(* state, and a specification leaves the other readouts' variables alone.  *)
(***************************************************************************)
EXTENDS Integers, Sequences, FiniteSets, TLC

VARIABLES
    \* AndroidBatteryReadout
    bat_file,          \* /sys/class/power_supply/battery/status: Some(text) or None (unreadable)
    bat_read,          \* what the last status() read from the file
    bat_result,        \* what the last status() returned
    \* AndroidKernelReadout
    sys_uname,         \* what libc::uname answers now: Some(utsname) or None (-1)
    k_pc,              \* "unconstructed" | "constructed"
    utsname,           \* the field AndroidKernelReadout.utsname
    uname_calls,       \* how often libc::uname was called
    release_result,    \* what the last os_release() did
    type_result,       \* what the last os_type() did
    \* AndroidGeneralReadout::cpu_model_name
    cpuinfo,           \* /proc/cpuinfo: Some(lines) or None (cannot be opened)
    cpu_pc,            \* "idle" | "scan" | "match" | "returned"
    cpu_i,             \* number of lines the for loop has taken from the reader
    hardware, model, processor,   \* the three Option<String> locals
    cpu_result,
    \* AndroidGeneralReadout::machine
    props,             \* the property store (ro.* keys: fixed at boot): key -> Some(text) or None
    machine_result,
    machine_branch,    \* which return statement machine() left by
    \* the statistics syscall, AndroidMemoryReadout, and concurrent callers
    kernel,            \* the counters sysinfo(2) reports now
    meminfo,           \* /proc/meminfo: key -> Some(kB) or None (key absent)
    overflow_checks,   \* whether the build traps integer overflow
    used_pc,           \* position of used(): "idle" | "total" | ... | "returned" | "panicked"
    used_vals,         \* the values used() has fetched so far
    used_failed,       \* the sub-accessors of this used() call that returned Err, in call order
    used_result,
    self_sysinfo,      \* the field sysinfo of the shared readout instances
    t_pc, t_method, t_info, t_ret, t_seen, t_result,   \* per calling thread
    \* AndroidPackageReadout
    pkg_env,           \* pm, dpkg, cargo and PREFIX as the process finds them
    pk_pc,             \* "idle" | "pm" | "dpkg" | "cargo" | "returned" | "panicked"
    packages,          \* the Vec count_pkgs() builds
    pk_panic           \* the panic message, when count_pkgs() unwound

batVars  == <<bat_file, bat_read, bat_result>>
kernVars == <<sys_uname, k_pc, utsname, uname_calls, release_result, type_result>>
cpuVars  == <<cpuinfo, cpu_pc, cpu_i, hardware, model, processor, cpu_result>>
machVars == <<props, machine_result, machine_branch>>
sysVars  == <<kernel, meminfo, overflow_checks>>
usedVars == <<used_pc, used_vals, used_failed, used_result>>
thrVars  == <<self_sysinfo, t_pc, t_method, t_info, t_ret, t_seen, t_result>>
pkgVars  == <<pkg_env, pk_pc, packages, pk_panic>>
notBat  == <<kernVars, cpuVars, machVars, sysVars, usedVars, thrVars, pkgVars>>
notKern == <<batVars, cpuVars, machVars, sysVars, usedVars, thrVars, pkgVars>>
notCpu  == <<batVars, kernVars, machVars, sysVars, usedVars, thrVars, pkgVars>>
notMach == <<batVars, kernVars, cpuVars, sysVars, usedVars, thrVars, pkgVars>>
notMem  == <<batVars, kernVars, cpuVars, machVars, thrVars, pkgVars>>
notThr  == <<batVars, kernVars, cpuVars, machVars, usedVars, pkgVars>>
notPkg  == <<batVars, kernVars, cpuVars, machVars, sysVars, usedVars, thrVars>>
vars == <<batVars, kernVars, cpuVars, machVars, sysVars, usedVars, thrVars, pkgVars>>

----------------------------------------------------------------------------
(* Option and Result *)

None == [tag |-> "None"]
Some(v) == [tag |-> "Some", v |-> v]
Ok(v) == [tag |-> "Ok", v |-> v]
\* ReadoutError::Other(msg)
ErrOther(msg) == [tag |-> "Err", kind |-> "Other", msg |-> msg]
\* the readout error `?` makes of a std::io::Error
ErrIo == [tag |-> "Err", kind |-> "Io", msg |-> "io error"]
\* the method has not been called
NotCalled == [tag |-> "NotCalled"]
\* the call unwound with a panic
Panicked(msg) == [tag |-> "Panic", msg |-> msg]

----------------------------------------------------------------------------
(* Text *)

RECURSIVE Concat(_)
Concat(ss) == IF ss = << >> THEN << >> ELSE Head(ss) \o Concat(Tail(ss))

\* str::starts_with
StartsWith(s, p) == Len(s) >= Len(p) /\ SubSeq(s, 1, Len(p)) = p

\* char::is_whitespace, on the characters that occur
IsWhitespace(c) == c \in {" ", "\t", "\n"}

\* str::replace: every non-overlapping match of `from`, left to right
RECURSIVE Replace(_, _, _)
Replace(s, from, to) ==
    IF s = << >> \/ from = << >> THEN s
    ELSE IF StartsWith(s, from)
         THEN to \o Replace(SubSeq(s, Len(from) + 1, Len(s)), from, to)
         ELSE <<Head(s)>> \o Replace(Tail(s), from, to)

RECURSIVE TrimStart(_)
TrimStart(s) ==
    IF s # << >> /\ IsWhitespace(Head(s)) THEN TrimStart(Tail(s)) ELSE s

RECURSIVE TrimEnd(_)
TrimEnd(s) ==
    IF s # << >> /\ IsWhitespace(s[Len(s)]) THEN TrimEnd(SubSeq(s, 1, Len(s) - 1)) ELSE s

\* str::trim
Trim(s) == TrimEnd(TrimStart(s))

UpperChars == <<"A", "B", "C", "D", "E", "F", "G", "H", "I", "J", "K", "L", "M", "N", "O", "P", "Q", "R", "S", "T", "U", "V", "W", "X", "Y", "Z">>
LowerChars == <<"a", "b", "c", "d", "e", "f", "g", "h", "i", "j", "k", "l", "m", "n", "o", "p", "q", "r", "s", "t", "u", "v", "w", "x", "y", "z">>

ToLowerChar(c) ==
    IF \E i \in 1..Len(UpperChars) : UpperChars[i] = c
    THEN LowerChars[CHOOSE i \in 1..Len(UpperChars) : UpperChars[i] = c]
    ELSE c

ToUpperChar(c) ==
    IF \E i \in 1..Len(LowerChars) : LowerChars[i] = c
    THEN UpperChars[CHOOSE i \in 1..Len(LowerChars) : LowerChars[i] = c]
    ELSE c

\* str::to_lowercase
ToLowercase(s) == [i \in 1..Len(s) |-> ToLowerChar(s[i])]

\* the number of bytes UTF-8 gives a character (the characters that occur)
Utf8Len(c) == IF c \in {"ê", "é"} THEN 2 ELSE 1

RECURSIVE ByteLen(_)
\* String::len: the length in bytes
ByteLen(s) == IF s = << >> THEN 0 ELSE Utf8Len(Head(s)) + ByteLen(Tail(s))

\* str::chars().count()
CharLen(s) == Len(s)

\* extra::pop_newline: drops one trailing line feed
pop_newline(s) ==
    IF s # << >> /\ s[Len(s)] = "\n" THEN SubSeq(s, 1, Len(s) - 1) ELSE s

----------------------------------------------------------------------------
(* AndroidBatteryReadout::status *)

BAT_STATUS_PATH == "/sys/class/power_supply/battery/status"

\* status() without the lowercasing: a status the kernel writes capitalised
\* ("Charging") is then no longer recognised
status_case_sensitive(file) ==
    IF file = None THEN ErrIo
    ELSE LET status_text == pop_newline(file.v)
         IN  IF status_text = <<"c", "h", "a", "r", "g", "i", "n", "g">> THEN Ok("Charging")
             ELSE IF status_text \in {<<"d", "i", "s", "c", "h", "a", "r", "g", "i", "n", "g">>, <<"f", "u", "l", "l">>} THEN Ok("Discharging")
             ELSE ErrOther(<<"Got unexpected value '", status_text, "' from ",
                             BAT_STATUS_PATH, ".">>)

\* status(), given what reading the file gives
status(file) ==
    IF file = None THEN ErrIo
    ELSE LET status_text == ToLowercase(pop_newline(file.v))
         IN  IF status_text = <<"c", "h", "a", "r", "g", "i", "n", "g">> THEN Ok("Charging")
             ELSE IF status_text \in {<<"d", "i", "s", "c", "h", "a", "r", "g", "i", "n", "g">>, <<"f", "u", "l", "l">>} THEN Ok("Discharging")
             ELSE ErrOther(<<"Got unexpected value '", status_text, "' from ",
                             BAT_STATUS_PATH, ".">>)

StatusWords == {<<"c", "h", "a", "r", "g", "i", "n", "g">>, <<"d", "i", "s", "c", "h", "a", "r", "g", "i", "n", "g">>, <<"f", "u", "l", "l">>, <<"u", "n", "k", "n", "o", "w", "n">>, <<"n", "o", "t", " ", "c", "h", "a", "r", "g", "i", "n", "g">>, << >>}
Capitalised(s) == IF s = << >> THEN s ELSE <<ToUpperChar(Head(s))>> \o Tail(s)
AllCaps(s) == [i \in 1..Len(s) |-> ToUpperChar(s[i])]
StatusSpellings == UNION {{w, Capitalised(w), AllCaps(w)} : w \in StatusWords}
\* what the status file can hold: a word, as the kernel or a test writes it
StatusTexts ==
    {pre \o w \o post : pre \in {<< >>, <<" ">>}, w \in StatusSpellings,
                        post \in {<< >>, <<"\n">>, <<"\n", "\n">>, <<" ", "\n">>}}
StatusFiles == {None} \cup {Some(x) : x \in StatusTexts}


BatteryStatus ==
    /\ bat_read' = bat_file
    /\ bat_result' = status(bat_file)
    /\ UNCHANGED bat_file
    /\ UNCHANGED notBat

\* the power supply driver rewrites the status file
BatteryFileChanges ==
    /\ \E f \in StatusFiles : f # bat_file /\ bat_file' = f
    /\ UNCHANGED <<bat_read, bat_result>>
    /\ UNCHANGED notBat

----------------------------------------------------------------------------
(* AndroidKernelReadout *)

\* a utsname field: the bytes of a C string, and whether they are UTF-8
UtsField(text, utf8) == [text |-> text, utf8 |-> utf8]
SysNames == {UtsField("Linux", TRUE)}
Releases == {UtsField("4.14.186", TRUE), UtsField("5.10.43-android12", TRUE),
             UtsField("6.1.25-android14", TRUE),
             UtsField("(bytes that are not UTF-8)", FALSE)}
UnameAnswers ==
    {None} \cup {Some([sysname |-> s, release |-> r]) : s \in SysNames, r \in Releases}

\* CStr::to_str().unwrap().to_owned()
CStrToOwned(f) ==
    IF f.utf8 THEN Ok(f.text)
    ELSE Panicked("called Result::unwrap() on an Err value: Utf8Error")


\* new()
KernelNew ==
    /\ k_pc = "unconstructed"
    /\ uname_calls' = uname_calls + 1
    /\ utsname' = sys_uname
    /\ k_pc' = "constructed"
    /\ UNCHANGED <<sys_uname, release_result, type_result>>
    /\ UNCHANGED notKern

\* os_release() that asks the kernel again on every call
os_release_requery ==
    /\ k_pc = "constructed"
    /\ uname_calls' = uname_calls + 1
    /\ utsname' = sys_uname
    /\ release_result' =
         IF sys_uname # None THEN CStrToOwned(sys_uname.v.release)
         ELSE ErrOther("Failed to get os_release")
    /\ UNCHANGED <<sys_uname, k_pc, type_result>>
    /\ UNCHANGED notKern

os_release ==
    /\ k_pc = "constructed"
    /\ release_result' =
         IF utsname # None THEN CStrToOwned(utsname.v.release)
         ELSE ErrOther("Failed to get os_release")
    /\ UNCHANGED <<sys_uname, k_pc, utsname, uname_calls, type_result>>
    /\ UNCHANGED notKern

os_type ==
    /\ k_pc = "constructed"
    /\ type_result' =
         IF utsname # None THEN CStrToOwned(utsname.v.sysname)
         ELSE ErrOther("Failed to get os_type")
    /\ UNCHANGED <<sys_uname, k_pc, utsname, uname_calls, release_result>>
    /\ UNCHANGED notKern

\* what uname would answer changes (the call starts or stops failing, the
\* kernel reports another identity)
UnameAnswerChanges ==
    /\ \E a \in UnameAnswers : a # sys_uname /\ sys_uname' = a
    /\ UNCHANGED <<k_pc, utsname, uname_calls, release_result, type_result>>
    /\ UNCHANGED notKern

----------------------------------------------------------------------------
(* AndroidGeneralReadout::cpu_model_name *)

\* the longest processor table
MaxLines == 3

HARDWARE == <<"H", "a", "r", "d", "w", "a", "r", "e">>
PROCESSOR == <<"P", "r", "o", "c", "e", "s", "s", "o", "r">>
MODEL_NAME == <<"m", "o", "d", "e", "l", " ", "n", "a", "m", "e">>

\* line.replace(label, "").replace(":", "").trim().to_string()
Capture(line, label) == Trim(Replace(Replace(line, label, << >>), <<":">>, << >>))

\* the lines a processor table is made of
CpuLines ==
    { <<"H", "a", "r", "d", "w", "a", "r", "e", "\t", ":", " ", "Q", "u", "a", "l", "c", "o", "m", "m">>,
      <<"H", "a", "r", "d", "w", "a", "r", "e", " ", ":", " ", "M", "T", ":", "6", "7", " ", "H", "a", "r", "d", "w", "a", "r", "e">>,
      <<"P", "r", "o", "c", "e", "s", "s", "o", "r", "\t", ":", " ", "A", "R", "M", "v", "7", " ", "P", "r", "o", "c", "e", "s", "s", "o", "r", " ", "r", "e", "v", " ", "4">>,
      <<"P", "r", "o", "c", "e", "s", "s", "o", "r", " ", ":", " ", "A", "A", "r", "c", "h", "6", "4">>,
      <<"m", "o", "d", "e", "l", " ", "n", "a", "m", "e", " ", ":", " ", "F", "o", "o", " ", "B", "a", "r">>,
      <<"m", "o", "d", "e", "l", " ", "n", "a", "m", "e", "\t", ":", " ", "A", "R", "M", ":", " ", "m", "o", "d", "e", "l", " ", "n", "a", "m", "e", " ", "2">>,
      <<"B", "o", "g", "o", "M", "I", "P", "S", " ", ":", " ", "3", "8", ".", "4", "0">>,
      << >> }

RECURSIVE SeqsUpTo(_, _)
\* the sequences over S of length at most n
SeqsUpTo(S, n) ==
    IF n = 0 THEN {<< >>}
    ELSE LET shorter == SeqsUpTo(S, n - 1)
         IN  shorter \cup {Append(t, x) : t \in {u \in shorter : Len(u) = n - 1}, x \in S}

\* what BufReader::lines yields per line: Ok(text), or Err for a line that is
\* not UTF-8
CpuLineResults == {Ok(l) : l \in CpuLines} \cup {ErrIo}
CpuTables == SeqsUpTo(CpuLineResults, MaxLines)


FAILED_MODEL_NAME == "Failed to get processor model name"

\* the match on (hardware, model, processor), with model name before Hardware
cpu_match_model_first(hw, mo, pr) ==
    IF mo # None THEN Ok(mo.v)
    ELSE IF hw # None THEN Ok(hw.v)
    ELSE IF pr # None THEN Ok(pr.v)
    ELSE ErrOther(FAILED_MODEL_NAME)

\* the match on (hardware, model, processor)
cpu_match(hw, mo, pr) ==
    IF hw # None THEN Ok(hw.v)
    ELSE IF mo # None THEN Ok(mo.v)
    ELSE IF pr # None THEN Ok(pr.v)
    ELSE ErrOther(FAILED_MODEL_NAME)

\* the call starts: File::open, the three locals, and `if let Ok(content)`
CpuOpen ==
    /\ cpu_pc = "idle"
    /\ cpu_i' = 0
    /\ hardware' = None /\ model' = None /\ processor' = None
    /\ cpu_pc' = IF cpuinfo # None THEN "scan" ELSE "match"
    /\ UNCHANGED <<cpuinfo, cpu_result>>
    /\ UNCHANGED notCpu

\* one turn of the for loop, or its end when the reader has no more lines
CpuScanLine ==
    /\ cpu_pc = "scan"
    /\ IF cpu_i < Len(cpuinfo.v)
       THEN LET item == cpuinfo.v[cpu_i + 1]
                line == item.v
            IN  /\ cpu_i' = cpu_i + 1
                /\ IF item.tag # "Ok"     \* flatten() passes over an Err
                   THEN UNCHANGED <<hardware, model, processor, cpu_pc>>
                   ELSE IF StartsWith(line, HARDWARE)
                   THEN /\ hardware' = Some(Capture(line, HARDWARE))
                        /\ cpu_pc' = "match"
                        /\ UNCHANGED <<model, processor>>
                   ELSE IF StartsWith(line, PROCESSOR)
                   THEN /\ processor' = Some(Capture(line, PROCESSOR))
                        /\ UNCHANGED <<hardware, model, cpu_pc>>
                   ELSE IF StartsWith(line, MODEL_NAME) /\ model = None
                   THEN /\ model' = Some(Capture(line, MODEL_NAME))
                        /\ UNCHANGED <<hardware, processor, cpu_pc>>
                   ELSE UNCHANGED <<hardware, model, processor, cpu_pc>>
       ELSE /\ cpu_pc' = "match"
            /\ UNCHANGED <<cpu_i, hardware, model, processor>>
    /\ UNCHANGED <<cpuinfo, cpu_result>>
    /\ UNCHANGED notCpu

CpuReturn ==
    /\ cpu_pc = "match"
    /\ cpu_result' = cpu_match(hardware, model, processor)
    /\ cpu_pc' = "returned"
    /\ UNCHANGED <<cpuinfo, cpu_i, hardware, model, processor>>
    /\ UNCHANGED notCpu

----------------------------------------------------------------------------
(* AndroidProductReadout and AndroidGeneralReadout::machine *)

GETPROP_FAILED == "getprop failed"

\* getprop(key).ok_or(ReadoutError::Other("getprop failed"))
getprop_or(store, key) ==
    IF store[key] = None THEN ErrOther(GETPROP_FAILED) ELSE Ok(store[key].v)

vendor(store) == getprop_or(store, "ro.product.brand")
family(store) == getprop_or(store, "ro.product.model")
product(store) == getprop_or(store, "ro.build.product")

RECURSIVE SplitFrom(_, _)
\* str::split_whitespace, cur being the token read so far
SplitFrom(s, cur) ==
    IF s = << >> THEN (IF cur = << >> THEN << >> ELSE <<cur>>)
    ELSE IF IsWhitespace(Head(s))
         THEN (IF cur = << >> THEN << >> ELSE <<cur>>) \o SplitFrom(Tail(s), << >>)
         ELSE SplitFrom(Tail(s), Append(cur, Head(s)))
split_whitespace(s) == SplitFrom(s, << >>)

RECURSIVE UniqueFrom(_, _)
\* Itertools::unique: the first occurrence of every item, in order
UniqueFrom(ts, seen) ==
    IF ts = << >> THEN << >>
    ELSE IF Head(ts) \in seen THEN UniqueFrom(Tail(ts), seen)
         ELSE <<Head(ts)>> \o UniqueFrom(Tail(ts), seen \cup {Head(ts)})
unique(ts) == UniqueFrom(ts, {})

RECURSIVE join(_, _)
\* Itertools::join
join(ts, sep) ==
    IF ts = << >> THEN << >>
    ELSE IF Len(ts) = 1 THEN Head(ts)
    ELSE Head(ts) \o sep \o join(Tail(ts), sep)

\* format!("{} {} ({})", vendor, family, product)
FormatProduct(v, f, p) == Concat(<<v, <<" ">>, f, <<" ", "(">>, p, <<")">>>>)

\* the length up to which machine() returns the deduplicated form
DEDUP_MAX_LEN == 15

\* machine() with the length counted in characters instead of bytes
machine_char_len(store) ==
    LET v == vendor(store)
        f == family(store)
        p == product(store)
    IN  IF v.tag = "Err" THEN [result |-> v, branch |-> "vendor?"]
        ELSE IF f.tag = "Err" THEN [result |-> f, branch |-> "family?"]
        ELSE IF p.tag = "Err" THEN [result |-> p, branch |-> "product?"]
        ELSE LET formatted == FormatProduct(v.v, f.v, p.v)
                 new_product == unique(split_whitespace(formatted))
             IN  IF formatted = << >> \/ CharLen(formatted) <= DEDUP_MAX_LEN
                 THEN [result |-> Ok(join(new_product, <<" ">>)), branch |-> "deduplicated"]
                 ELSE [result |-> Ok(formatted), branch |-> "unmodified"]

\* machine(): what it returns, and by which return statement
machine(store) ==
    LET v == vendor(store)
        f == family(store)
        p == product(store)
    IN  IF v.tag = "Err" THEN [result |-> v, branch |-> "vendor?"]
        ELSE IF f.tag = "Err" THEN [result |-> f, branch |-> "family?"]
        ELSE IF p.tag = "Err" THEN [result |-> p, branch |-> "product?"]
        ELSE LET formatted == FormatProduct(v.v, f.v, p.v)
                 new_product == unique(split_whitespace(formatted))
             IN  IF formatted = << >> \/ ByteLen(formatted) <= DEDUP_MAX_LEN
                 THEN [result |-> Ok(join(new_product, <<" ">>)), branch |-> "deduplicated"]
                 ELSE [result |-> Ok(formatted), branch |-> "unmodified"]

PropKeys == {"ro.product.brand", "ro.product.model", "ro.build.product"}
\* what a property can hold
PropTexts == {<<"A", "c", "m", "e">>, <<"Z", "e", "t", "a">>, <<"Z", "1">>, <<"m", "o", "t", "o">>, <<"g", "5">>, <<"P", "i", "x", "e", "l">>, <<"p", "x">>, <<"Z", "ê", "t", "a">>, << >>}
PropValues == {None} \cup {Some(x) : x \in PropTexts}


\* machine() is called
Machine ==
    /\ machine_result' = machine(props).result
    /\ machine_branch' = machine(props).branch
    /\ UNCHANGED props
    /\ UNCHANGED notMach

----------------------------------------------------------------------------
(* The statistics syscall and AndroidMemoryReadout *)

\* the most pages of RAM the machine has
MaxPages == 2
\* the bytes of a page: the kernel counts RAM in pages
PAGE_BYTES == 4 * 1024
\* mem_unit: the bytes per unit of the RAM fields, as the kernel chooses it
MemUnits == {1, PAGE_BYTES}

FAILED_STATISTICS == "Failed to get system statistics"

\* sysinfo::new(): the struct before any call has filled it
SysinfoNew ==
    [uptime |-> 0, loads0 |-> 0, totalram |-> 0, freeram |-> 0, bufferram |-> 0,
     mem_unit |-> 0]

\* what the kernel writes into the struct
Snapshot(k) ==
    [uptime |-> k.uptime, loads0 |-> k.load0,
     totalram |-> (k.total * PAGE_BYTES) \div k.mem_unit,
     freeram |-> (k.free * PAGE_BYTES) \div k.mem_unit,
     bufferram |-> (k.buffers * PAGE_BYTES) \div k.mem_unit,
     mem_unit |-> k.mem_unit]

\* unsafe { sysinfo(info_ptr) }: the return value and the struct afterwards
SysinfoCall(ok, info) ==
    IF ok THEN [ret |-> 0, info |-> Snapshot(kernel)] ELSE [ret |-> -1, info |-> info]

\* total(), free() and buffers(), given what the syscall gave
total(r) ==
    IF r.ret # -1 THEN Ok((r.info.totalram * r.info.mem_unit) \div 1024)
    ELSE ErrOther(FAILED_STATISTICS)
free(r) ==
    IF r.ret # -1 THEN Ok((r.info.freeram * r.info.mem_unit) \div 1024)
    ELSE ErrOther(FAILED_STATISTICS)
buffers(r) ==
    IF r.ret # -1 THEN Ok((r.info.bufferram * r.info.mem_unit) \div 1024)
    ELSE ErrOther(FAILED_STATISTICS)

\* shared::get_meminfo_value: the value of the key in kB, 0 when the key is absent
get_meminfo_value(key) == IF meminfo[key] = None THEN 0 ELSE meminfo[key].v
cached == Ok(get_meminfo_value("Cached"))
reclaimable == Ok(get_meminfo_value("SReclaimable"))

\* u64, as four 16-bit limbs, least significant first
LIMB == 2^16
U64(n) == <<n % LIMB, (n \div LIMB) % LIMB, 0, 0>>
U64_ZERO == <<0, 0, 0, 0>>
\* a - b on u64: the wrapped difference, and whether it borrowed (overflowed)
U64Sub(a, b) ==
    LET d1 == a[1] - b[1]
        c1 == IF d1 < 0 THEN 1 ELSE 0
        d2 == a[2] - b[2] - c1
        c2 == IF d2 < 0 THEN 1 ELSE 0
        d3 == a[3] - b[3] - c2
        c3 == IF d3 < 0 THEN 1 ELSE 0
        d4 == a[4] - b[4] - c3
        c4 == IF d4 < 0 THEN 1 ELSE 0
    IN  [v |-> <<d1 + c1 * LIMB, d2 + c2 * LIMB, d3 + c3 * LIMB, d4 + c4 * LIMB>>,
         overflow |-> c4 = 1]

SUBTRACT_OVERFLOW == "attempt to subtract with overflow"
UNWRAP_ERR == "called Result::unwrap() on an Err value"

\* total - free - cached - reclaimable - buffers, left to right: a build with
\* overflow checks panics at the first difference below zero, one without wraps
Subtract(vals, checks) ==
    LET s1 == U64Sub(U64(vals.total), U64(vals.free))
        s2 == U64Sub(s1.v, U64(vals.cached))
        s3 == U64Sub(s2.v, U64(vals.reclaimable))
        s4 == U64Sub(s3.v, U64(vals.buffers))
    IN  IF checks /\ (s1.overflow \/ s2.overflow \/ s3.overflow \/ s4.overflow)
        THEN Panicked(SUBTRACT_OVERFLOW)
        ELSE Ok(s4.v)

\* the kernel's counters: RAM in pages, free + buffers + cached + reclaimable
\* never above the total
KernelStates ==
    {k \in [total : 1..MaxPages, free : 0..MaxPages, buffers : 0..MaxPages,
            mem_unit : MemUnits, uptime : {0}, load0 : {0}, ncpu : {1}] :
        k.free + k.buffers <= k.total}
KB_PER_PAGE == PAGE_BYTES \div 1024
MeminfoStates ==
    [{"Cached", "SReclaimable"} -> {None} \cup {Some(p * KB_PER_PAGE) : p \in 0..MaxPages}]
MeminfoPages(mi, key) == IF mi[key] = None THEN 0 ELSE mi[key].v \div KB_PER_PAGE
Consistent(k, mi) ==
    k.free + k.buffers + MeminfoPages(mi, "Cached") + MeminfoPages(mi, "SReclaimable")
        <= k.total

NoVals == [total |-> 0, free |-> 0, cached |-> 0, reclaimable |-> 0, buffers |-> 0]


\* one sub-accessor call of used() and its unwrap(): `name` is next when the
\* call is at `at`, `res` is what the accessor returned
UsedStep(at, name, next, res) ==
    /\ used_pc = at
    /\ IF res.tag = "Ok"
       THEN /\ used_vals' = [used_vals EXCEPT ![name] = res.v]
            /\ used_pc' = next
            /\ UNCHANGED <<used_failed, used_result>>
       ELSE /\ used_failed' = Append(used_failed, [accessor |-> name, err |-> res])
            /\ used_pc' = "panicked"
            /\ used_result' = Panicked(UNWRAP_ERR)
            /\ UNCHANGED used_vals
    /\ UNCHANGED sysVars
    /\ UNCHANGED notMem

\* used() is called: let total = self.total().unwrap()
UsedTotal ==
    /\ used_vals = NoVals /\ used_failed = << >> /\ used_result = NotCalled
    /\ \E ok \in BOOLEAN : UsedStep("idle", "total", "free", total(SysinfoCall(ok, self_sysinfo.memory)))
UsedFree ==
    \E ok \in BOOLEAN : UsedStep("free", "free", "cached", free(SysinfoCall(ok, self_sysinfo.memory)))
UsedCached == UsedStep("cached", "cached", "reclaimable", cached)
UsedReclaimable == UsedStep("reclaimable", "reclaimable", "buffers", reclaimable)
UsedBuffers ==
    \E ok \in BOOLEAN :
        UsedStep("buffers", "buffers", "subtract", buffers(SysinfoCall(ok, self_sysinfo.memory)))

\* Ok(total - free - cached - reclaimable - buffers)
UsedSubtract ==
    /\ used_pc = "subtract"
    /\ LET r == Subtract(used_vals, overflow_checks)
       IN  /\ used_result' = r
           /\ used_pc' = IF r.tag = "Panic" THEN "panicked" ELSE "returned"
    /\ UNCHANGED <<sysVars, used_vals, used_failed>>
    /\ UNCHANGED notMem

\* memory is allocated, freed, cached or written back while used() runs
MemoryChanges ==
    /\ used_pc \notin {"returned", "panicked"}
    /\ \E k \in KernelStates, mi \in MeminfoStates :
          /\ Consistent(k, mi)
          /\ k.total = kernel.total /\ k.mem_unit = kernel.mem_unit
          /\ [c \in {"Cached", "SReclaimable"} |-> mi[c] = None]
               = [c \in {"Cached", "SReclaimable"} |-> meminfo[c] = None]
          /\ <<k, mi>> # <<kernel, meminfo>>
          /\ kernel' = k /\ meminfo' = mi
    /\ UNCHANGED <<overflow_checks, usedVars>>
    /\ UNCHANGED notMem

----------------------------------------------------------------------------
(* The statistics calls of one AndroidGeneralReadout and one               *)
(* AndroidMemoryReadout, called from two threads                           *)

Threads == {"t1", "t2"}
\* the longest the machine has been up, in seconds
MaxUptime == 2
SI_LOAD_SHIFT == 16
\* a load average of 1.0 in the kernel's fixed point
LOAD_ONE == 2^SI_LOAD_SHIFT

GeneralMethods == {"cpu_usage", "uptime"}
MemoryMethods == {"total", "free", "buffers"}
StatMethods == GeneralMethods \cup MemoryMethods
InstanceOf(m) == IF m \in GeneralMethods THEN "general" ELSE "memory"

\* f64::round of num / den, for num, den > 0: halves go away from zero
RoundDiv(num, den) == (2 * num + den) \div (2 * den)

USAGE_NULL == "Processor usage is null."

\* cpu_usage(), given what the syscall gave and num_cpus::get()
cpu_usage(r, ncpu) ==
    IF r.ret # -1
    THEN LET cpu_usage_u == RoundDiv(r.info.loads0 * 100, LOAD_ONE * ncpu)
         IN  IF cpu_usage_u # 0 THEN Ok(cpu_usage_u) ELSE ErrOther(USAGE_NULL)
    ELSE ErrOther(FAILED_STATISTICS)

uptime(r) ==
    IF r.ret # -1 THEN Ok(r.info.uptime) ELSE ErrOther(FAILED_STATISTICS)

StatResult(m, r, ncpu) ==
    CASE m = "cpu_usage" -> cpu_usage(r, ncpu)
      [] m = "uptime"    -> uptime(r)
      [] m = "total"     -> total(r)
      [] m = "free"      -> free(r)
      [] m = "buffers"   -> buffers(r)

ThreadKernelStates ==
    [total : {1}, free : 0..1, buffers : {0}, mem_unit : {PAGE_BYTES},
     uptime : 0..MaxUptime, load0 : {0, LOAD_ONE}, ncpu : {1, 2}]


\* the syscall writes through a reference to the field of the shared
\* instance instead of into a copy
StoreSnapshotInPlace(t, r) ==
    /\ t_info' = [t_info EXCEPT ![t] = r.info]
    /\ self_sysinfo' = [self_sysinfo EXCEPT ![InstanceOf(t_method[t])] = r.info]

\* `let mut info = self.sysinfo; sysinfo(&mut info)`: the syscall writes into
\* the caller's copy
StoreSnapshot(t, r) ==
    /\ t_info' = [t_info EXCEPT ![t] = r.info]
    /\ UNCHANGED self_sysinfo

\* thread t calls method m: let mut info = self.sysinfo
ThreadCall(t, m) ==
    /\ t_pc[t] = "idle"
    /\ t_method' = [t_method EXCEPT ![t] = m]
    /\ t_info' = [t_info EXCEPT ![t] = self_sysinfo[InstanceOf(m)]]
    /\ t_pc' = [t_pc EXCEPT ![t] = "copied"]
    /\ t_result' = [t_result EXCEPT ![t] = NotCalled]
    /\ UNCHANGED <<sysVars, self_sysinfo, t_ret, t_seen>>
    /\ UNCHANGED notThr

\* let ret = unsafe { sysinfo(info_ptr) }
ThreadSyscall(t) ==
    /\ t_pc[t] = "copied"
    /\ \E ok \in BOOLEAN :
          LET r == SysinfoCall(ok, t_info[t])
          IN  /\ StoreSnapshot(t, r)
              /\ t_ret' = [t_ret EXCEPT ![t] = r.ret]
              /\ t_seen' = [t_seen EXCEPT ![t] = IF ok THEN Snapshot(kernel) ELSE t_info[t]]
    /\ t_pc' = [t_pc EXCEPT ![t] = "filled"]
    /\ UNCHANGED <<sysVars, t_method, t_result>>
    /\ UNCHANGED notThr

\* the rest of the method: the result from ret and info
ThreadReturn(t) ==
    /\ t_pc[t] = "filled"
    /\ t_result' = [t_result EXCEPT ![t] =
                      StatResult(t_method[t], [ret |-> t_ret[t], info |-> t_info[t]],
                                 kernel.ncpu)]
    /\ t_pc' = [t_pc EXCEPT ![t] = "returned"]
    /\ UNCHANGED <<sysVars, self_sysinfo, t_method, t_info, t_ret, t_seen>>
    /\ UNCHANGED notThr

\* the caller drops the result; the thread can call again
ThreadDone(t) ==
    /\ t_pc[t] = "returned"
    /\ t_pc' = [t_pc EXCEPT ![t] = "idle"]
    /\ t_method' = [t_method EXCEPT ![t] = "none"]
    /\ t_info' = [t_info EXCEPT ![t] = SysinfoNew]
    /\ t_ret' = [t_ret EXCEPT ![t] = 0]
    /\ t_seen' = [t_seen EXCEPT ![t] = SysinfoNew]
    /\ t_result' = [t_result EXCEPT ![t] = NotCalled]
    /\ UNCHANGED <<sysVars, self_sysinfo>>
    /\ UNCHANGED notThr

\* time passes; load and free memory change
KernelTick ==
    /\ kernel.uptime < MaxUptime
    /\ \E k \in ThreadKernelStates :
          /\ k.uptime = kernel.uptime + 1
          /\ k.ncpu = kernel.ncpu
          /\ kernel' = k
    /\ UNCHANGED <<meminfo, overflow_checks, thrVars>>
    /\ UNCHANGED notThr

----------------------------------------------------------------------------
(* AndroidPackageReadout *)

\* the most entries of $PREFIX/var/lib/dpkg/info
MaxDirEntries == 2
\* the line counts of the output of `pm list packages`
PmLineCounts == {0, 1, 2, 42}

\* extra::count_lines, on a text of n lines: None for an empty text
count_lines(n) == IF n = 0 THEN None ELSE Some(n)

PM_SPAWN_PANIC == "called Result::unwrap() on an Err value"
PM_UTF8_PANIC == "ERROR: pm list packages output was not valid UTF-8"

\* count_pm(): Some/None, or the panic it unwinds with
count_pm(env) ==
    IF ~env.pm_spawns THEN Panicked(PM_SPAWN_PANIC)
    ELSE IF ~env.pm_utf8 THEN Panicked(PM_UTF8_PANIC)
    ELSE count_lines(env.pm_lines)

\* the entries of a directory, by extension: extra::list_dir_entries and
\* extra::path_extension
DirListings == SeqsUpTo({"list", "md5sums", "none"}, MaxDirEntries)
CountExt(entries, ext) == Cardinality({i \in 1..Len(entries) : entries[i] = ext})

\* count_dpkg() that does not look at PREFIX
count_dpkg_any_prefix(env) ==
    IF env.dpkg_info # << >> THEN Some(CountExt(env.dpkg_info, "list")) ELSE None

\* count_dpkg()
count_dpkg(env) ==
    IF ~env.prefix_set THEN None
    ELSE IF env.dpkg_info # << >> THEN Some(CountExt(env.dpkg_info, "list"))
    ELSE None

\* shared::count_cargo
count_cargo(env) == env.cargo_count

\* extra::which
which(env, exe) == exe \in env.on_path

PkgEnvs ==
    [pm_spawns : BOOLEAN, pm_utf8 : BOOLEAN, pm_lines : PmLineCounts,
     on_path : SUBSET {"dpkg", "cargo"}, prefix_set : BOOLEAN,
     dpkg_info : DirListings, cargo_count : {None, Some(0), Some(3)}]


Entry(kind, c) == [manager |-> kind, count |-> c]

\* count_pkgs() is called: the Vec, and the pm step
CountPkgsPm ==
    /\ pk_pc = "idle"
    /\ LET c == count_pm(pkg_env)
       IN  IF c.tag = "Panic"
           THEN /\ pk_pc' = "panicked" /\ pk_panic' = Some(c.msg) /\ packages' = << >>
           ELSE /\ pk_pc' = "dpkg"
                /\ packages' = IF c.tag = "Some" THEN <<Entry("Android", c.v)>> ELSE << >>
                /\ UNCHANGED pk_panic
    /\ UNCHANGED pkg_env
    /\ UNCHANGED notPkg

CountPkgsDpkg ==
    /\ pk_pc = "dpkg"
    /\ LET c == count_dpkg(pkg_env)
       IN  packages' = IF which(pkg_env, "dpkg") /\ c.tag = "Some"
                       THEN Append(packages, Entry("Dpkg", c.v)) ELSE packages
    /\ pk_pc' = "cargo"
    /\ UNCHANGED <<pkg_env, pk_panic>>
    /\ UNCHANGED notPkg

CountPkgsCargo ==
    /\ pk_pc = "cargo"
    /\ LET c == count_cargo(pkg_env)
       IN  packages' = IF which(pkg_env, "cargo") /\ c.tag = "Some"
                       THEN Append(packages, Entry("Cargo", c.v)) ELSE packages
    /\ pk_pc' = "returned"
    /\ UNCHANGED <<pkg_env, pk_panic>>
    /\ UNCHANGED notPkg

----------------------------------------------------------------------------
(* Specifications: one per readout.  The readouts share no state, so each  *)
(* is checked alone, the others not in use.                                *)

IdleKernel ==
    [total |-> 1, free |-> 0, buffers |-> 0, mem_unit |-> 1, uptime |-> 0, load0 |-> 0,
     ncpu |-> 1]
IdlePkgEnv ==
    [pm_spawns |-> TRUE, pm_utf8 |-> TRUE, pm_lines |-> 0, on_path |-> {},
     prefix_set |-> FALSE, dpkg_info |-> << >>, cargo_count |-> None]

\* the state before the first call, when the readout `focus` is the one in use:
\* its environment is any the process can find, the others' is not looked at
InitFor(focus) ==
    /\ bat_file \in IF focus \in {"battery", "all"} THEN StatusFiles ELSE {None}
    /\ bat_read = None
    /\ bat_result = NotCalled
    /\ sys_uname \in IF focus \in {"kernel", "all"} THEN UnameAnswers ELSE {None}
    /\ k_pc = "unconstructed"
    /\ utsname = None
    /\ uname_calls = 0
    /\ release_result = NotCalled
    /\ type_result = NotCalled
    /\ cpuinfo \in IF focus \in {"cpu", "all"} THEN {None} \cup {Some(t) : t \in CpuTables} ELSE {None}
    /\ cpu_pc = "idle"
    /\ cpu_i = 0
    /\ hardware = None
    /\ model = None
    /\ processor = None
    /\ cpu_result = NotCalled
    /\ props \in IF focus \in {"machine", "all"} THEN [PropKeys -> PropValues]
                 ELSE {[k \in PropKeys |-> None]}
    /\ machine_result = NotCalled
    /\ machine_branch = "none"
    /\ kernel \in CASE focus \in {"memory", "all"} -> KernelStates
                  [] focus = "threads" -> {k \in ThreadKernelStates : k.uptime = 0}
                  [] OTHER -> {IdleKernel}
    /\ meminfo \in IF focus \in {"memory", "all"} THEN {mi \in MeminfoStates : Consistent(kernel, mi)}
                   ELSE {[k \in {"Cached", "SReclaimable"} |-> None]}
    /\ overflow_checks \in IF focus \in {"memory", "all"} THEN BOOLEAN ELSE {FALSE}
    /\ used_pc = "idle"
    /\ used_vals = NoVals
    /\ used_failed = << >>
    /\ used_result = NotCalled
    /\ self_sysinfo = [general |-> SysinfoNew, memory |-> SysinfoNew]
    /\ t_pc = [t \in Threads |-> "idle"]
    /\ t_method = [t \in Threads |-> "none"]
    /\ t_info = [t \in Threads |-> SysinfoNew]
    /\ t_ret = [t \in Threads |-> 0]
    /\ t_seen = [t \in Threads |-> SysinfoNew]
    /\ t_result = [t \in Threads |-> NotCalled]
    /\ pkg_env \in IF focus \in {"packages", "all"} THEN PkgEnvs ELSE {IdlePkgEnv}
    /\ pk_pc = "idle"
    /\ packages = << >>
    /\ pk_panic = None

BatteryNext == BatteryStatus \/ BatteryFileChanges
SpecBattery == InitFor("battery") /\ [][BatteryNext]_vars

KernelNext == KernelNew \/ os_release \/ os_type \/ UnameAnswerChanges
SpecKernel == InitFor("kernel") /\ [][KernelNext]_vars

CpuNext == CpuOpen \/ CpuScanLine \/ CpuReturn
SpecCpu == InitFor("cpu") /\ [][CpuNext]_vars

MachineNext == Machine
SpecMachine == InitFor("machine") /\ [][MachineNext]_vars

MemNext ==
    \/ UsedTotal \/ UsedFree \/ UsedCached \/ UsedReclaimable \/ UsedBuffers
    \/ UsedSubtract \/ MemoryChanges
SpecMem == InitFor("memory") /\ [][MemNext]_vars

ThreadsNext ==
    \/ \E t \in Threads, m \in StatMethods : ThreadCall(t, m)
    \/ \E t \in Threads : ThreadSyscall(t)
    \/ \E t \in Threads : ThreadReturn(t)
    \/ \E t \in Threads : ThreadDone(t)
    \/ KernelTick
SpecThreads == InitFor("threads") /\ [][ThreadsNext]_vars

PkgNext == CountPkgsPm \/ CountPkgsDpkg \/ CountPkgsCargo
SpecPkg == InitFor("packages") /\ [][PkgNext]_vars

\* every readout in one process
Init == InitFor("all")
Next ==
    \/ BatteryNext \/ KernelNext \/ CpuNext \/ MachineNext \/ MemNext \/ ThreadsNext
    \/ PkgNext
Spec == Init /\ [][Next]_vars

----------------------------------------------------------------------------
(* Properties *)

PastUsed == used_pc \in {"returned", "panicked"}

\* C1: used() hands the first failure among its sub-accessor calls (total,
\* free, cached, reclaimable, buffers) to its caller as that Err, unchanged: it
\* returns Err exactly when a sub-accessor returned Err, and does not panic
\* instead of returning.
C1_UsedPropagatesFirstFailure ==
    /\ used_failed # << >> =>
          used_pc = "returned" /\ used_result = used_failed[1].err
    /\ used_pc = "returned" => (used_result.tag = "Err" <=> used_failed # << >>)

\* the difference used() is to return, as a mathematical integer
UsedDifference ==
    used_vals.total - used_vals.free - used_vals.cached - used_vals.reclaimable
        - used_vals.buffers

\* C6: when all five sub-accessors succeeded, used() returns
\* total - free - cached - reclaimable - buffers; where that is negative it
\* follows one explicit policy (0, or an error) and neither wraps around to a
\* huge value nor aborts.
C6_UsedSubtractionPolicy ==
    (PastUsed /\ used_failed = << >>) =>
        IF UsedDifference >= 0
        THEN used_result = Ok(U64(UsedDifference))
        ELSE used_result = Ok(U64_ZERO) \/ used_result.tag = "Err"

\* C2: count_pkgs() cannot fail as a whole: whatever the per-manager steps
\* meet (pm that cannot be spawned, output that is not UTF-8, no dpkg, no
\* cargo, no PREFIX), the call goes on to return its list.
C2_CountPkgsNeverFails == pk_pc # "panicked" /\ pk_panic = None

ManagerRank(kind) == CASE kind = "Android" -> 1 [] kind = "Dpkg" -> 2 [] kind = "Cargo" -> 3
Managers == {packages[i].manager : i \in 1..Len(packages)}

\* C7: the list count_pkgs() builds holds at most one entry per manager, in
\* the order Android, Dpkg, Cargo; a Dpkg entry only if dpkg is on the search
\* path and PREFIX is set, a Cargo entry only if cargo is on the search path;
\* with 42 lines of pm output, PREFIX unset and no cargo the list returned is
\* exactly [(Android, 42)].
C7_CountPkgsEntries ==
    /\ \A i, j \in 1..Len(packages) :
          i < j => ManagerRank(packages[i].manager) < ManagerRank(packages[j].manager)
    /\ "Dpkg" \in Managers => "dpkg" \in pkg_env.on_path /\ pkg_env.prefix_set
    /\ "Cargo" \in Managers => "cargo" \in pkg_env.on_path
    /\ (/\ pk_pc = "returned"
        /\ pkg_env.pm_lines = 42
        /\ ~pkg_env.prefix_set
        /\ "cargo" \notin pkg_env.on_path) => packages = <<Entry("Android", 42)>>

\* C7, reached: dpkg is installed but PREFIX is unset, cargo is absent, pm
\* printed 42 lines, and count_pkgs() returned [(Android, 42)]
C7_Witness ==
    /\ pk_pc = "returned"
    /\ pkg_env.pm_lines = 42
    /\ pkg_env.on_path = {"dpkg"}
    /\ ~pkg_env.prefix_set
    /\ pkg_env.dpkg_info # << >>
    /\ packages = <<Entry("Android", 42)>>

KernelResultsFromSnapshot ==
    /\ k_pc = "unconstructed" => uname_calls = 0 /\ utsname = None
    /\ k_pc = "constructed" => uname_calls = 1
    /\ (k_pc = "constructed" /\ utsname = None) =>
          /\ release_result \in {NotCalled, ErrOther("Failed to get os_release")}
          /\ type_result \in {NotCalled, ErrOther("Failed to get os_type")}
    /\ (release_result.tag = "Ok" /\ utsname # None) =>
          release_result.v = utsname.v.release.text
    /\ (type_result.tag = "Ok" /\ utsname # None) =>
          type_result.v = utsname.v.sysname.text
    /\ utsname # None => release_result.tag # "Err" /\ type_result.tag # "Err"

\* C3 (amended): the identification syscall is made once, at construction, and
\* never again: after new() the number of uname calls stays 1 over any
\* sequence of os_release() and os_type() calls, the stored snapshot never
\* changes, and an accessor that returns Ok returns the snapshot's field; if
\* the syscall failed at construction every later call to either accessor
\* fails, os_release() with Other("Failed to get os_release") and os_type()
\* with Other("Failed to get os_type").
C3_KernelSnapshotOnce ==
    /\ []KernelResultsFromSnapshot
    /\ [][k_pc = "constructed" => utsname' = utsname /\ uname_calls' = uname_calls]_vars

\* C3, reached: uname failed at construction and would succeed now; both
\* accessors have been called and failed
C3_Witness ==
    /\ k_pc = "constructed"
    /\ utsname = None
    /\ sys_uname # None
    /\ release_result.tag = "Err"
    /\ type_result.tag = "Err"

\* C3 as first stated: uname is called once, and if it failed at
\* construction both accessors fail with the same SyscallFailure error.
C3_SameSyscallFailure ==
    /\ k_pc = "constructed" => uname_calls = 1
    /\ (k_pc = "constructed" /\ utsname = None
          /\ release_result # NotCalled /\ type_result # NotCalled) =>
          /\ release_result.tag = "Err"
          /\ release_result.kind = "SyscallFailure"
          /\ type_result = release_result

\* the items of the processor table, and those that are a line with the key
CpuItems == IF cpuinfo = None THEN << >> ELSE cpuinfo.v
KeyLines(label) ==
    {i \in 1..Len(CpuItems) : CpuItems[i].tag = "Ok" /\ StartsWith(CpuItems[i].v, label)}
First(S) == CHOOSE i \in S : \A j \in S : i <= j
Last(S) == CHOOSE i \in S : \A j \in S : j <= i

\* C4: cpu_model_name() returns by the precedence Hardware > model name >
\* Processor, whatever the order of the lines, and stops scanning at the first
\* Hardware line: the result is the captured value of the first Hardware line
\* if there is one (no line after it is taken from the reader), else the
\* captured value of the first model name line, else that of the last
\* Processor line, else (no such line, or the table cannot be opened) the error
\* Other("Failed to get processor model name").
C4_ModelNamePrecedence ==
    /\ KeyLines(HARDWARE) # {} => cpu_i <= First(KeyLines(HARDWARE))
    /\ cpu_pc = "returned" =>
          IF KeyLines(HARDWARE) # {}
          THEN /\ cpu_i = First(KeyLines(HARDWARE))
               /\ cpu_result = Ok(Capture(CpuItems[First(KeyLines(HARDWARE))].v, HARDWARE))
          ELSE /\ cpu_i = Len(CpuItems)
               /\ IF KeyLines(MODEL_NAME) # {}
                  THEN cpu_result =
                         Ok(Capture(CpuItems[First(KeyLines(MODEL_NAME))].v, MODEL_NAME))
                  ELSE IF KeyLines(PROCESSOR) # {}
                  THEN cpu_result =
                         Ok(Capture(CpuItems[Last(KeyLines(PROCESSOR))].v, PROCESSOR))
                  ELSE cpu_result = ErrOther(FAILED_MODEL_NAME)

\* C4, reached: a model name line and a Processor line come before the
\* Hardware line, and the call returned the Hardware value
C4_Witness ==
    /\ cpu_pc = "returned"
    /\ Len(CpuItems) = 3
    /\ KeyLines(MODEL_NAME) = {1} /\ KeyLines(PROCESSOR) = {2} /\ KeyLines(HARDWARE) = {3}
    /\ model # None /\ processor # None
    /\ cpu_result = Ok(hardware.v)

\* the line without its first ":"
RECURSIVE DropFirstColon(_)
DropFirstColon(s) ==
    IF s = << >> THEN s
    ELSE IF Head(s) = ":" THEN Tail(s)
    ELSE <<Head(s)>> \o DropFirstColon(Tail(s))

\* the value of a "key : value" line: the line without the key label it starts
\* with, the first colon and the surrounding whitespace
ValueAfterKey(line, label) ==
    Trim(DropFirstColon(SubSeq(line, Len(label) + 1, Len(line))))

Captured(local, label) ==
    local # None =>
        \E i \in KeyLines(label) : i <= cpu_i /\ local.v = ValueAfterKey(CpuItems[i].v, label)

\* C10: what cpu_model_name() captures from a recognized line is the line
\* without the key label, the first colon and the surrounding whitespace: a
\* later colon and a later occurrence of the key label inside the value stay.
C10_CaptureKeepsValue ==
    /\ Captured(hardware, HARDWARE)
    /\ Captured(processor, PROCESSOR)
    /\ Captured(model, MODEL_NAME)

RECURSIVE FirstOccurrencesFrom(_, _)
FirstOccurrencesFrom(ts, i) ==
    IF i > Len(ts) THEN << >>
    ELSE (IF \E j \in 1..(i - 1) : ts[j] = ts[i] THEN << >> ELSE <<ts[i]>>)
            \o FirstOccurrencesFrom(ts, i + 1)
\* the whitespace-separated tokens of s, each kept where it first occurs,
\* joined by single spaces
Deduplicated(s) == join(FirstOccurrencesFrom(split_whitespace(s), 1), <<" ">>)

AllPropsSet == \A k \in PropKeys : props[k] # None
Formatted ==
    FormatProduct(props["ro.product.brand"].v, props["ro.product.model"].v,
                  props["ro.build.product"].v)
AcmeZetaZ1 ==
    /\ props["ro.product.brand"] = Some(<<"A", "c", "m", "e">>)
    /\ props["ro.product.model"] = Some(<<"Z", "e", "t", "a">>)
    /\ props["ro.build.product"] = Some(<<"Z", "1">>)

\* C5 (amended): machine() formats "{vendor} {family} ({product})" and returns
\* the deduplicated form if and only if the formatted string's length in bytes
\* (UTF-8) is <= 15; for a longer one it returns the formatted string as it
\* is.  vendor "Acme", family "Zeta", product "Z1" give "Acme Zeta (Z1)", whose
\* length is 14 <= 15, so the call takes the deduplicating branch (which
\* leaves this string as it is: it has no duplicate token).
C5_MachineDedupByByteLength ==
    (machine_result # NotCalled /\ AllPropsSet) =>
        /\ ByteLen(Formatted) <= DEDUP_MAX_LEN =>
              machine_branch = "deduplicated" /\ machine_result = Ok(Deduplicated(Formatted))
        /\ ByteLen(Formatted) > DEDUP_MAX_LEN =>
              machine_branch = "unmodified" /\ machine_result = Ok(Formatted)
        /\ AcmeZetaZ1 =>
              /\ Formatted = <<"A", "c", "m", "e", " ", "Z", "e", "t", "a", " ", "(", "Z", "1", ")">>
              /\ ByteLen(Formatted) = 14
              /\ machine_branch = "deduplicated"
              /\ machine_result = Ok(<<"A", "c", "m", "e", " ", "Z", "e", "t", "a", " ", "(", "Z", "1", ")">>)

\* C5, reached: a formatted string of 14 bytes with a duplicate token, returned
\* without the duplicate
C5_Witness ==
    /\ props["ro.product.brand"] = Some(<<"m", "o", "t", "o">>)
    /\ props["ro.product.model"] = Some(<<"m", "o", "t", "o">>)
    /\ props["ro.build.product"] = Some(<<"g", "5">>)
    /\ machine_branch = "deduplicated"
    /\ machine_result = Ok(<<"m", "o", "t", "o", " ", "(", "g", "5", ")">>)

\* C5 as first stated: the deduplicated form if and only if the length in
\* characters is <= 15, and "Acme Zeta (Z1)" has length 16 > 15 and takes the
\* unmodified branch.
C5_DedupByCharLength ==
    (machine_result # NotCalled /\ AllPropsSet) =>
        /\ CharLen(Formatted) <= DEDUP_MAX_LEN =>
              machine_branch = "deduplicated" /\ machine_result = Ok(Deduplicated(Formatted))
        /\ CharLen(Formatted) > DEDUP_MAX_LEN =>
              machine_branch = "unmodified" /\ machine_result = Ok(Formatted)
        /\ AcmeZetaZ1 =>
              /\ CharLen(Formatted) = 16
              /\ machine_branch = "unmodified"
              /\ machine_result = Ok(<<"A", "c", "m", "e", " ", "Z", "e", "t", "a", " ", "(", "Z", "1", ")">>)

InFlight(t) == t_pc[t] \in {"filled", "returned"}

\* C8 (amended): a statistics call (cpu_usage, uptime, total, free, buffers)
\* copies the snapshot field of the readout into a local and lets the syscall
\* fill the copy; the field of the instance is never written.  Two concurrent
\* calls through the same instance do not race: each call holds exactly what
\* its own syscall wrote and returns the value computed from that.
C8_SnapshotFieldNeverWritten ==
    /\ self_sysinfo = [general |-> SysinfoNew, memory |-> SysinfoNew]
    /\ \A t \in Threads : InFlight(t) => t_info[t] = t_seen[t]
    /\ \A t \in Threads :
          t_pc[t] = "returned" =>
              t_result[t] = StatResult(t_method[t], [ret |-> t_ret[t], info |-> t_seen[t]],
                                       kernel.ncpu)

\* C8, reached: both threads are past the syscall of a call through the same
\* instance, and the kernel gave them different snapshots
C8_Witness ==
    /\ t_pc["t1"] = "filled" /\ t_pc["t2"] = "filled"
    /\ InstanceOf(t_method["t1"]) = InstanceOf(t_method["t2"])
    /\ t_ret["t1"] = 0 /\ t_ret["t2"] = 0
    /\ t_seen["t1"] # t_seen["t2"]

\* C8 as first stated: the snapshot field of the instance is mutated in place
\* during a statistics call: once a call's syscall has succeeded, the field of
\* the instance is not what the constructor left in it.
C8_FieldMutatedInPlace ==
    \A t \in Threads :
        (InFlight(t) /\ t_ret[t] = 0) =>
            self_sysinfo[InstanceOf(t_method[t])] # SysinfoNew

EqIgnoreCase(a, b) ==
    Len(a) = Len(b) /\ \A i \in 1..Len(a) : ToLowerChar(a[i]) = ToLowerChar(b[i])

\* the status text without its line feed
StatusRead == pop_newline(bat_read.v)
Recognized == {<<"c", "h", "a", "r", "g", "i", "n", "g">>, <<"d", "i", "s", "c", "h", "a", "r", "g", "i", "n", "g">>, <<"f", "u", "l", "l">>}

\* C9 (amended): status() maps the status text, its trailing line feed
\* removed, compared case-insensitively, as "charging" -> Charging,
\* "discharging" -> Discharging, "full" -> Discharging; for every other string
\* (e.g. "unknown", the empty string) it returns the error Other whose message
\* "Got unexpected value '<value>' from <path>." carries the lowercased value
\* and the source path, and never a default state.
C9_StatusMapping ==
    (bat_result # NotCalled /\ bat_read # None) =>
        /\ EqIgnoreCase(StatusRead, <<"c", "h", "a", "r", "g", "i", "n", "g">>) => bat_result = Ok("Charging")
        /\ EqIgnoreCase(StatusRead, <<"d", "i", "s", "c", "h", "a", "r", "g", "i", "n", "g">>) => bat_result = Ok("Discharging")
        /\ EqIgnoreCase(StatusRead, <<"f", "u", "l", "l">>) => bat_result = Ok("Discharging")
        /\ (\A w \in Recognized : ~EqIgnoreCase(StatusRead, w)) =>
              bat_result = ErrOther(<<"Got unexpected value '", ToLowercase(StatusRead),
                                      "' from ", BAT_STATUS_PATH, ".">>)

\* C9, reached: the file held "Unknown" and a line feed, and status() returned
\* the error
C9_Witness ==
    /\ bat_read = Some(<<"U", "n", "k", "n", "o", "w", "n", "\n">>)
    /\ bat_result.tag = "Err"
    /\ bat_result.kind = "Other"

\* C9 as first stated: every other string gives the UnexpectedValue error
\* variant carrying the raw value and the source path.
C9_UnexpectedValueVariant ==
    (bat_result # NotCalled /\ bat_read # None) =>
        /\ EqIgnoreCase(StatusRead, <<"c", "h", "a", "r", "g", "i", "n", "g">>) => bat_result = Ok("Charging")
        /\ EqIgnoreCase(StatusRead, <<"d", "i", "s", "c", "h", "a", "r", "g", "i", "n", "g">>) => bat_result = Ok("Discharging")
        /\ EqIgnoreCase(StatusRead, <<"f", "u", "l", "l">>) => bat_result = Ok("Discharging")
        /\ (\A w \in Recognized : ~EqIgnoreCase(StatusRead, w)) =>
              bat_result = [tag |-> "Err", kind |-> "UnexpectedValue",
                            value |-> StatusRead, path |-> BAT_STATUS_PATH]

====
